---- MODULE Spec2Model ----
(***************************************************************************)
(* Model of chain/network-primitives/src/blacklist.rs: the socket address  *)
(* blacklist (Blacklist, PatternAddr, PortsSet).                           *)
(*                                                                         *)
(* A pattern string is a sequence of one-character strings.  An Ipv4Addr   *)
(* is its four octets, an Ipv6Addr its eight 16-bit segments.              *)
(***************************************************************************)
EXTENDS Integers, Sequences, FiniteSets, TLC

(***************************************************************************)
(* Text parsing of std::net addresses, as invoked by PatternAddr::from_str *)
(* through str::parse::<IpAddr>() and str::parse::<SocketAddr>().          *)
(* Every reader takes the text s and a position pos (1-based) and yields   *)
(* either None or Some(value, next position).                              *)
(***************************************************************************)
None == [ok |-> FALSE]

Some(v, p) == [ok |-> TRUE, val |-> v, pos |-> p]

\* Option::or_else
or_else(a, b) == IF a.ok THEN a ELSE b

U8_MAX == 255

U16_MAX == 65535

HexLower == <<"0","1","2","3","4","5","6","7","8","9","a","b","c","d","e","f">>

HexUpper == <<"0","1","2","3","4","5","6","7","8","9","A","B","C","D","E","F">>

\* char::to_digit(radix): the digit's value, or -1 when c is no digit of the radix
to_digit(c, radix) ==
    LET idx == {k \in 1..radix : HexLower[k] = c \/ HexUpper[k] = c}
    IN  IF idx = {} THEN -1 ELSE (CHOOSE k \in idx : TRUE) - 1

peek_is_digit(s, pos, radix) == pos <= Len(s) /\ to_digit(s[pos], radix) >= 0

read_given_char(s, pos, c) ==
    IF pos <= Len(s) /\ s[pos] = c THEN Some(c, pos + 1) ELSE None

\* The digit loop of read_number with max_digits = Some(n): the value is
\* accumulated without overflow checks and the read fails as soon as more
\* than n digits were consumed.
RECURSIVE read_digits_max(_, _, _, _, _, _)
read_digits_max(s, pos, radix, max_digits, value, digit_count) ==
    IF ~peek_is_digit(s, pos, radix)
    THEN Some([value |-> value, digit_count |-> digit_count], pos)
    ELSE IF digit_count + 1 > max_digits THEN None
    ELSE read_digits_max(s, pos + 1, radix, max_digits,
                         value * radix + to_digit(s[pos], radix), digit_count + 1)

\* One digit of the loop of read_number with max_digits = None:
\* checked_mul then checked_add on the target type, whose largest value is max.
RECURSIVE read_digits_checked(_, _, _, _, _, _)
checked_digit(s, pos, radix, max, next, digit_count) ==
    IF next > max THEN None
    ELSE read_digits_checked(s, pos + 1, radix, max, next, digit_count + 1)

read_digits_checked(s, pos, radix, max, value, digit_count) ==
    IF ~peek_is_digit(s, pos, radix)
    THEN Some([value |-> value, digit_count |-> digit_count], pos)
    ELSE checked_digit(s, pos, radix, max,
                       value * radix + to_digit(s[pos], radix), digit_count)

\* The end of read_number: the conversion to the target type and the checks
\* on the digits that were read (r, from the digit loop).
number_result(r, has_leading_zero, allow_zero_prefix, max) ==
    IF ~r.ok THEN None
    ELSE IF r.val.value > max THEN None
    ELSE IF r.val.digit_count = 0 THEN None
    ELSE IF ~allow_zero_prefix /\ has_leading_zero /\ r.val.digit_count > 1 THEN None
    ELSE Some(r.val.value, r.pos)

\* read_number::<T>(radix, max_digits, allow_zero_prefix), T's largest value
\* being max; max_digits = 0 stands for None.
read_number(s, pos, radix, max_digits, allow_zero_prefix, max) ==
    number_result(IF max_digits > 0
                  THEN read_digits_max(s, pos, radix, max_digits, 0, 0)
                  ELSE read_digits_checked(s, pos, radix, max, 0, 0),
                  pos <= Len(s) /\ s[pos] = "0", allow_zero_prefix, max)

\* read_separator(sep, index, inner) up to the call of inner: the position
\* inner starts at, or 0 when the separator is missing.
read_separator(s, pos, sep, index) ==
    IF index = 0 THEN pos
    ELSE IF read_given_char(s, pos, sep).ok THEN pos + 1 ELSE 0

\* read_ipv4_addr: four decimal groups of at most three digits, no leading
\* zero, separated by '.'.  n is the group read at position start.
RECURSIVE read_ipv4_groups(_, _, _, _)
ipv4_group_read(s, n, i, groups) ==
    IF ~n.ok THEN None
    ELSE read_ipv4_groups(s, n.pos, i + 1, Append(groups, n.val))

ipv4_group_at(s, start, i, groups) ==
    IF start = 0 THEN None
    ELSE ipv4_group_read(s, read_number(s, start, 10, 3, FALSE, U8_MAX), i, groups)

read_ipv4_groups(s, pos, i, groups) ==
    IF i = 4 THEN Some(groups, pos)
    ELSE ipv4_group_at(s, read_separator(s, pos, ".", i), i, groups)

read_ipv4_addr(s, pos) == read_ipv4_groups(s, pos, 0, <<>>)

\* read_groups of read_ipv6_addr: up to limit groups of at most four hex
\* digits separated by ':', the last two of which may be an embedded IPv4
\* address.  Yields the number of groups read and whether an IPv4 address
\* ended them.
RECURSIVE read_groups_from(_, _, _, _, _)
ipv6_group_read(s, pos, limit, i, groups, group) ==
    IF group.ok
    THEN read_groups_from(s, group.pos, limit, i + 1, Append(groups, group.val))
    ELSE [size |-> i, ipv4 |-> FALSE, groups |-> groups, pos |-> pos]

ipv6_embedded_read(s, pos, limit, i, groups, start, ipv4) ==
    IF ipv4.ok
    THEN [size |-> i + 2, ipv4 |-> TRUE, pos |-> ipv4.pos,
          groups |-> groups \o <<ipv4.val[1] * 256 + ipv4.val[2],
                                 ipv4.val[3] * 256 + ipv4.val[4]>>]
    ELSE ipv6_group_read(s, pos, limit, i, groups,
                         IF start # 0
                         THEN read_number(s, start, 16, 4, TRUE, U16_MAX)
                         ELSE None)

ipv6_group_at(s, pos, limit, i, groups, start) ==
    ipv6_embedded_read(s, pos, limit, i, groups, start,
                       IF i < limit - 1 /\ start # 0
                       THEN read_ipv4_addr(s, start)
                       ELSE None)

read_groups_from(s, pos, limit, i, groups) ==
    IF i >= limit THEN [size |-> i, ipv4 |-> FALSE, groups |-> groups, pos |-> pos]
    ELSE ipv6_group_at(s, pos, limit, i, groups, read_separator(s, pos, ":", i))

read_groups(s, pos, limit) == read_groups_from(s, pos, limit, 0, <<>>)

Zeros(n) == [k \in 1..n |-> 0]

\* read_ipv6_addr after the head: all eight groups, or "::" and the tail
ipv6_join(head, tail) ==
    Some(head.groups \o Zeros(8 - head.size - tail.size) \o tail.groups, tail.pos)

ipv6_after_head(s, head) ==
    IF head.size = 8 THEN Some(head.groups, head.pos)
    ELSE IF head.ipv4 THEN None
    ELSE IF ~read_given_char(s, head.pos, ":").ok THEN None
    ELSE IF ~read_given_char(s, head.pos + 1, ":").ok THEN None
    ELSE ipv6_join(head, read_groups(s, head.pos + 2, 8 - (head.size + 1)))

read_ipv6_addr(s, pos) == ipv6_after_head(s, read_groups(s, pos, 8))

\* IpAddr::V4(ip), IpAddr::V6(ip) of what a reader yields
map_IpAddr(r, family) ==
    IF r.ok THEN Some([family |-> family, ip |-> r.val], r.pos) ELSE None

read_ip_addr(s, pos) ==
    or_else(map_IpAddr(read_ipv4_addr(s, pos), "V4"),
            map_IpAddr(read_ipv6_addr(s, pos), "V6"))

\* Mutant of parse_with: what follows the text the reader took is ignored
parse_with_prefix(s, r) ==
    IF r.ok THEN [ok |-> TRUE, val |-> r.val] ELSE [ok |-> FALSE]

\* parse_with: the inner reader must consume the whole text
parse_with(s, r) ==
    IF r.ok /\ r.pos = Len(s) + 1 THEN [ok |-> TRUE, val |-> r.val] ELSE [ok |-> FALSE]

\* s.parse::<std::net::IpAddr>()
parse_IpAddr(s) == parse_with(s, read_ip_addr(s, 1))

\* The digit loop of read_number::<u32> with max_digits = None.  The value
\* is kept as two 16-bit halves, so that checked_mul/checked_add overflow
\* of the 32-bit value is exact.
RECURSIVE read_digits_u32(_, _, _, _, _)
u32_digit(s, pos, hi, low, digit_count) ==
    IF hi * 10 + low \div (U16_MAX + 1) > U16_MAX THEN None
    ELSE read_digits_u32(s, pos + 1, hi * 10 + low \div (U16_MAX + 1),
                         low % (U16_MAX + 1), digit_count + 1)

read_digits_u32(s, pos, hi, lo, digit_count) ==
    IF ~peek_is_digit(s, pos, 10)
    THEN Some([hi |-> hi, lo |-> lo, digit_count |-> digit_count], pos)
    ELSE u32_digit(s, pos, hi, lo * 10 + to_digit(s[pos], 10), digit_count)

\* read_port: ':' then read_number::<u16>(10, None, true)
read_port(s, pos) ==
    IF read_given_char(s, pos, ":").ok
    THEN read_number(s, pos + 1, 10, 0, TRUE, U16_MAX)
    ELSE None

\* read_scope_id: '%' then read_number::<u32>(10, None, true)
scope_id_result(r) ==
    IF r.ok /\ r.val.digit_count > 0
    THEN Some([hi |-> r.val.hi, lo |-> r.val.lo], r.pos)
    ELSE None

read_scope_id(s, pos) ==
    IF read_given_char(s, pos, "%").ok
    THEN scope_id_result(read_digits_u32(s, pos + 1, 0, 0, 0))
    ELSE None

NoScope == [hi |-> 0, lo |-> 0]

\* std::net::SocketAddrV4::new(ip, port)
SocketAddrV4(ip, port) == [family |-> "V4", ip |-> ip, port |-> port]

\* std::net::SocketAddrV6::new(ip, port, flowinfo, scope_id)
SocketAddrV6(ip, port, flowinfo, scope_id) ==
    [family |-> "V6", ip |-> ip, port |-> port, flowinfo |-> flowinfo, scope_id |-> scope_id]

\* read_socket_addr_v4: read_ipv4_addr then read_port
socket_addr_v4_port(ip, port) ==
    IF port.ok THEN Some(SocketAddrV4(ip.val, port.val), port.pos) ELSE None

socket_addr_v4_ip(s, ip) ==
    IF ip.ok THEN socket_addr_v4_port(ip, read_port(s, ip.pos)) ELSE None

read_socket_addr_v4(s, pos) == socket_addr_v4_ip(s, read_ipv4_addr(s, pos))

\* read_socket_addr_v6: '[', read_ipv6_addr, read_scope_id().unwrap_or(0),
\* ']', read_port
socket_addr_v6_port(ip, scope_id, port) ==
    IF port.ok THEN Some(SocketAddrV6(ip.val, port.val, 0, scope_id), port.pos) ELSE None

socket_addr_v6_close(s, ip, scope_id, close) ==
    IF read_given_char(s, close, "]").ok
    THEN socket_addr_v6_port(ip, scope_id, read_port(s, close + 1))
    ELSE None

socket_addr_v6_scope(s, ip, scope) ==
    IF scope.ok
    THEN socket_addr_v6_close(s, ip, scope.val, scope.pos)
    ELSE socket_addr_v6_close(s, ip, NoScope, ip.pos)

socket_addr_v6_ip(s, ip) ==
    IF ip.ok THEN socket_addr_v6_scope(s, ip, read_scope_id(s, ip.pos)) ELSE None

read_socket_addr_v6(s, pos) ==
    IF read_given_char(s, pos, "[").ok
    THEN socket_addr_v6_ip(s, read_ipv6_addr(s, pos + 1))
    ELSE None

read_socket_addr(s, pos) ==
    or_else(read_socket_addr_v4(s, pos), read_socket_addr_v6(s, pos))

\* s.parse::<std::net::SocketAddr>()
parse_SocketAddr(s) == parse_with(s, read_socket_addr(s, 1))

(***************************************************************************)
(* PatternAddr                                                             *)
(***************************************************************************)
\* std::net::Ipv4Addr::to_ipv6_mapped: ::ffff:a.b.c.d
to_ipv6_mapped(ip) ==
    <<0, 0, 0, 0, 0, U16_MAX, ip[1] * 256 + ip[2], ip[3] * 256 + ip[4]>>

Ip(ip) == [variant |-> "Ip", ip |-> ip]

IpPort(addr) == [variant |-> "IpPort", addr |-> addr]

Ok(v) == [ok |-> TRUE, val |-> v]

Err == [ok |-> FALSE]

\* std::net::Ipv4Addr::to_ipv6_compatible: ::a.b.c.d, the other embedding
to_ipv6_compatible(ip) ==
    <<0, 0, 0, 0, 0, 0, ip[1] * 256 + ip[2], ip[3] * 256 + ip[4]>>

\* Mutant of from_ip_addr: a bare IPv4 pattern is embedded as ::a.b.c.d
from_ip_addr_compatible(ip_addr) ==
    Ip(IF ip_addr.family = "V4" THEN to_ipv6_compatible(ip_addr.ip) ELSE ip_addr.ip)

\* from_str, first branch: the text is an IpAddr
from_ip_addr(ip_addr) ==
    Ip(IF ip_addr.family = "V4" THEN to_ipv6_mapped(ip_addr.ip) ELSE ip_addr.ip)

\* Mutant of from_socket_addr: an IPv4 IP:PORT pattern is embedded as ::a.b.c.d
from_socket_addr_compatible(socket_addr) ==
    IpPort(IF socket_addr.family = "V4"
           THEN SocketAddrV6(to_ipv6_compatible(socket_addr.ip), socket_addr.port, 0, NoScope)
           ELSE socket_addr)

\* from_str, second branch: the text is a SocketAddr
from_socket_addr(socket_addr) ==
    IpPort(IF socket_addr.family = "V4"
           THEN SocketAddrV6(to_ipv6_mapped(socket_addr.ip), socket_addr.port, 0, NoScope)
           ELSE socket_addr)

from_parsed(ip_addr, socket_addr) ==
    IF ip_addr.ok THEN Ok(from_ip_addr(ip_addr.val))
    ELSE IF ~socket_addr.ok THEN Err
    ELSE Ok(from_socket_addr(socket_addr.val))

\* impl FromStr for PatternAddr
from_str(s) == from_parsed(parse_IpAddr(s), parse_SocketAddr(s))

(***************************************************************************)
(* The pattern strings of the model                                        *)
(***************************************************************************)
\* "127.0.0.1"
P_lo4 == <<"1","2","7",".","0",".","0",".","1">>

\* "::ffff:127.0.0.1"
P_mapped_lo4 == <<":",":","f","f","f","f",":","1","2","7",".","0",".","0",".","1">>

\* "127.0.0.1:42"
P_lo4_42 == <<"1","2","7",".","0",".","0",".","1",":","4","2">>

\* "[::ffff:127.0.0.1]:42"
P_mapped_lo4_42 == <<"[",":",":","f","f","f","f",":","1","2","7",".","0",".","0",".","1","]",":","4","2">>

\* "127.0.0.1:0"
P_lo4_0 == <<"1","2","7",".","0",".","0",".","1",":","0">>

\* "192.0.2.4"
P_ip == <<"1","9","2",".","0",".","2",".","4">>

\* "192.0.2.4:42"
P_ip_42 == <<"1","9","2",".","0",".","2",".","4",":","4","2">>

\* "::1"
P_lo6 == <<":",":","1">>

\* "[::1]:42"
P_lo6_42 == <<"[",":",":","1","]",":","4","2">>

\* "192.0.2.4.5"
P_bad_octets == <<"1","9","2",".","0",".","2",".","4",".","5">>

\* "192.0.2.0/24"
P_bad_cidr == <<"1","9","2",".","0",".","2",".","0","/","2","4">>

\* "192.0.2.4:424242"
P_bad_port == <<"1","9","2",".","0",".","2",".","4",":","4","2","4","2","4","2">>

Patterns ==
    {P_lo4, P_mapped_lo4, P_lo4_42, P_mapped_lo4_42,
     P_lo4_0, P_ip, P_ip_42, P_lo6, P_lo6_42,
     P_bad_octets, P_bad_cidr, P_bad_port}

(***************************************************************************)
(* Pattern texts written from addresses and ports: the forms of            *)
(* test_pattern_addr for several addresses, and malformed variants of them *)
(***************************************************************************)
Digit(n) == HexLower[n + 1]

\* the decimal text of an octet or a port
RECURSIVE fmt_decimal(_)
fmt_decimal(n) ==
    IF n < 10 THEN <<Digit(n)>> ELSE fmt_decimal(n \div 10) \o <<Digit(n % 10)>>

\* "a.b.c.d"
fmt_Ipv4Addr(ip) ==
    fmt_decimal(ip[1]) \o <<".">> \o fmt_decimal(ip[2]) \o <<".">>
        \o fmt_decimal(ip[3]) \o <<".">> \o fmt_decimal(ip[4])

\* "::ffff:a.b.c.d"
fmt_mapped(ip) == <<":",":","f","f","f","f",":">> \o fmt_Ipv4Addr(ip)

\* "[text]"
fmt_bracketed(text) == <<"[">> \o text \o <<"]">>

\* "text:port"
fmt_with_port(text, port) == text \o <<":">> \o fmt_decimal(port)

TextIpv4Addrs == {<<192, 0, 2, 4>>, <<255, 255, 255, 255>>, <<10, 99, 100, 0>>}

TextPorts == {0, 42, U16_MAX}

Ipv4Texts == {fmt_Ipv4Addr(a) : a \in TextIpv4Addrs}

MappedTexts == {fmt_mapped(a) : a \in TextIpv4Addrs}

BareTexts == Ipv4Texts \cup MappedTexts \cup {P_lo6}

\* the texts a port may follow: "a.b.c.d" and "[v6]"
PortSubjects == Ipv4Texts \cup {fmt_bracketed(t) : t \in MappedTexts \cup {P_lo6}}

PortTexts == {fmt_with_port(t, p) : t \in PortSubjects, p \in TextPorts}

ValidTexts == BareTexts \cup PortTexts

\* "a.b.c.*"
WildcardTexts ==
    {fmt_decimal(a[1]) \o <<".">> \o fmt_decimal(a[2]) \o <<".">>
        \o fmt_decimal(a[3]) \o <<".", "*">> : a \in TextIpv4Addrs}

\* "a.b.c.d/24", "::ffff:a.b.c.d/24"
CidrTexts == {t \o <<"/","2","4">> : t \in BareTexts}

\* "a.b.c" and "a.b.c.d.5": three octets and five
OctetCountTexts ==
    {fmt_decimal(a[1]) \o <<".">> \o fmt_decimal(a[2]) \o <<".">>
        \o fmt_decimal(a[3]) : a \in TextIpv4Addrs}
    \cup {t \o <<".","5">> : t \in Ipv4Texts \cup MappedTexts}

\* "256.0.2.4", "01.0.2.4", "192.0.2.", "192..2.4": an octet out of range,
\* with a leading zero, missing
MalformedOctetTexts ==
    {<<"2","5","6",".","0",".","2",".","4">>,
     <<"0","1",".","0",".","2",".","4">>,
     <<"1","9","2",".","0",".","2",".">>,
     <<"1","9","2",".",".","2",".","4">>}

\* a port that is no u16: 65536, 424242, none at all
BadPortTexts ==
    {t \o x : t \in PortSubjects,
              x \in {<<":","6","5","5","3","6">>, <<":","4","2","4","2","4","2">>, <<":">>}}

\* a valid text followed by a character that belongs to no address, and a
\* text with a blank before or after it
TrailingGarbageTexts ==
    {t \o <<"x">> : t \in ValidTexts}
    \cup {t \o <<" ">> : t \in BareTexts}
    \cup {<<" ">> \o t : t \in BareTexts}

\* "foo", "", "[192.0.2.4]:42", "[::1]", "::ffff:192.0.2.4:42": no address,
\* an IPv4 address in brackets, brackets without a port, an IPv4-mapped
\* address with a port but without brackets
OtherBadTexts ==
    {<<"f","o","o">>, <<>>,
     fmt_with_port(fmt_bracketed(fmt_Ipv4Addr(<<192, 0, 2, 4>>)), 42),
     fmt_bracketed(P_lo6),
     fmt_with_port(fmt_mapped(<<192, 0, 2, 4>>), 42)}

BadTexts ==
    WildcardTexts \cup CidrTexts \cup OctetCountTexts \cup MalformedOctetTexts
        \cup BadPortTexts \cup TrailingGarbageTexts \cup OtherBadTexts

Texts == ValidTexts \cup BadTexts

\* from_str on each pattern string of the model, evaluated once
PatternAddrOf == [s \in Patterns \cup Texts |-> from_str(s)]

\* addr.parse::<PatternAddr>()
parse_PatternAddr(addr) == PatternAddrOf[addr]

(***************************************************************************)
(* PortsSet                                                                *)
(***************************************************************************)
PortsSet_All == [kind |-> "All", ports |-> {}]

PortsSet_Some(ports) == [kind |-> "Some", ports |-> ports]

\* Mutant of new: the entry of an IP:PORT pattern starts as All
new_all(port) == PortsSet_All

\* PortsSet::new
new(port) == PortsSet_Some({port})

\* Mutant of add_all: an explicit set is kept
add_all_kept(self) == self

\* PortsSet::add_all
add_all(self) == PortsSet_All

\* Mutant of add_port: the port is recorded whatever the set was, All included
add_port_overwriting(self, port) ==
    PortsSet_Some((IF self.kind = "Some" THEN self.ports ELSE {}) \cup {port})

\* Mutant of add_port: the port replaces the explicit set
add_port_replacing(self, port) ==
    IF self.kind = "Some" THEN PortsSet_Some({port}) ELSE self

\* PortsSet::add_port
add_port(self, port) ==
    IF self.kind = "Some" THEN PortsSet_Some(self.ports \cup {port}) ELSE self

\* Mutant of PortsSet::contains: All is looked up like an explicit set
PortsSet_contains_listed(self, port) == port \in self.ports

\* PortsSet::contains
PortsSet_contains(self, port) ==
    IF self.kind = "All" THEN TRUE ELSE port \in self.ports

(***************************************************************************)
(* Blacklist: a HashMap<Ipv6Addr, PortsSet>, here a function whose domain  *)
(* is the set of keys.                                                     *)
(***************************************************************************)
\* Self::default()
Blacklist_default == <<>>

\* Mutant of entry_upsert: the map is left with the entry of key alone
entry_upsert_alone(map, key, modified, inserted) ==
    [k \in {key} |-> IF key \in DOMAIN map THEN modified ELSE inserted]

\* self.0.entry(key).and_modify(modify).or_insert(insert), given the value
\* and_modify yields for the present entry
entry_upsert(map, key, modified, inserted) ==
    IF key \in DOMAIN map
    THEN [map EXCEPT ![key] = modified]
    ELSE [k \in DOMAIN map \cup {key} |-> IF k = key THEN inserted ELSE map[k]]

\* Blacklist::add after the parse: the two arms of the match
add_parsed(map, pattern) ==
    IF pattern.variant = "Ip"
    THEN entry_upsert(map, pattern.ip,
                      IF pattern.ip \in DOMAIN map
                      THEN add_all(map[pattern.ip]) ELSE PortsSet_All,
                      PortsSet_All)
    ELSE entry_upsert(map, pattern.addr.ip,
                      IF pattern.addr.ip \in DOMAIN map
                      THEN add_port(map[pattern.addr.ip], pattern.addr.port)
                      ELSE PortsSet_All,
                      new(pattern.addr.port))

\* Mutant of add_result: a pattern that fails to parse empties the map
add_result_clearing(map, parsed) ==
    IF ~parsed.ok THEN [ok |-> FALSE, map |-> Blacklist_default]
    ELSE [ok |-> TRUE, map |-> add_parsed(map, parsed.val)]

add_result(map, parsed) ==
    IF ~parsed.ok THEN [ok |-> FALSE, map |-> map]
    ELSE [ok |-> TRUE, map |-> add_parsed(map, parsed.val)]

\* Blacklist::add: the Result it returns and the map it leaves
add(map, addr) == add_result(map, parse_PatternAddr(addr))

\* The canonical (IPv6) form of an address of either family
Canonical(addr) == IF addr.family = "V4" THEN to_ipv6_mapped(addr.ip) ELSE addr.ip

\* Mutant of Blacklist::contains: the IPv4 address of the query is embedded
\* as ::a.b.c.d
Blacklist_contains_compatible(map, addr) ==
    LET ip == IF addr.family = "V4" THEN to_ipv6_compatible(addr.ip) ELSE addr.ip
    IN  IF ip \notin DOMAIN map THEN FALSE
        ELSE PortsSet_contains(map[ip], addr.port)

\* Mutant of Blacklist::contains: a key that is present denies every port
Blacklist_contains_any_port(map, addr) ==
    LET ip == IF addr.family = "V4" THEN to_ipv6_mapped(addr.ip) ELSE addr.ip
    IN  ip \in DOMAIN map

\* Blacklist::contains
Blacklist_contains(map, addr) ==
    LET ip == IF addr.family = "V4" THEN to_ipv6_mapped(addr.ip) ELSE addr.ip
    IN  IF ip \notin DOMAIN map THEN FALSE
        ELSE PortsSet_contains(map[ip], addr.port)

(***************************************************************************)
(* The bounds and the query endpoints of the model                         *)
(***************************************************************************)
\* the longest list of patterns from_iter is given
MaxLen == 3

\* Ipv4Addr::new(127, 0, 0, 1), Ipv4Addr::new(192, 0, 2, 4), Ipv6Addr ::1
lo4 == <<127, 0, 0, 1>>

ip4 == <<192, 0, 2, 4>>

lo6 == <<0, 0, 0, 0, 0, 0, 0, 1>>

Ipv4Addrs == {lo4, ip4}

Ports == {0, 42, 8080}

\* SocketAddr::new(ip, port) for the addresses of test_blacklist
SocketAddrs ==
    {SocketAddrV4(a, p) : a \in Ipv4Addrs, p \in Ports}
    \cup {SocketAddrV6(a, p, 0, NoScope) :
            a \in {to_ipv6_mapped(lo4), to_ipv6_mapped(ip4), lo6}, p \in Ports}

(***************************************************************************)
(* The state machine: Blacklist::from_iter consumes its iterator one item  *)
(* at a time and returns the blacklist, which is then queried.             *)
(***************************************************************************)
VARIABLES
    blacklist,  \* the items from_iter has taken from its iterator, in order
    result,     \* the Blacklist under construction, then the one returned
    warnings,   \* the patterns named by tracing::warn!, in order
    pc,         \* "iterating" inside from_iter's loop, "returned" after it
    last        \* <<>>, or the last call of contains: its argument and verdict

vars == <<blacklist, result, warnings, pc, last>>

Init ==
    /\ blacklist = <<>>
    /\ result = Blacklist_default
    /\ warnings = <<>>
    /\ pc = "iterating"
    /\ last = <<>>

\* Mutant of from_iter_added: the Result of add is unwrapped, so the loop
\* has no next step on a pattern that fails to parse
from_iter_added_unwrap(r, addr) ==
    /\ r.ok
    /\ result' = r.map
    /\ warnings' = warnings

\* Mutant of from_iter_added: the warning is emitted whatever add returned
from_iter_added_warning(r, addr) ==
    /\ result' = r.map
    /\ warnings' = Append(warnings, addr)

\* from_iter's use of what add returned: the warning when it is an error
from_iter_added(r, addr) ==
    /\ result' = r.map
    /\ warnings' = IF r.ok THEN warnings ELSE Append(warnings, addr)

\* one iteration of the loop of from_iter on the next item addr
from_iter_next(addr) ==
    /\ pc = "iterating"
    /\ Len(blacklist) < MaxLen
    /\ blacklist' = Append(blacklist, addr)
    /\ from_iter_added(add(result, addr), addr)
    /\ UNCHANGED <<pc, last>>

\* the iterator is exhausted: from_iter returns result
from_iter_return ==
    /\ pc = "iterating"
    /\ pc' = "returned"
    /\ UNCHANGED <<blacklist, result, warnings, last>>

\* Mutant of contains: the lookup goes through the entry API and leaves an
\* empty explicit set under a key that was absent
contains_inserting(addr) ==
    /\ pc = "returned"
    /\ last' = <<[addr |-> addr, verdict |-> Blacklist_contains(result, addr)]>>
    /\ result' = entry_upsert(result, Canonical(addr),
                              IF Canonical(addr) \in DOMAIN result
                              THEN result[Canonical(addr)] ELSE PortsSet_Some({}),
                              PortsSet_Some({}))
    /\ UNCHANGED <<blacklist, warnings, pc>>

\* a call of Blacklist::contains on the returned blacklist
contains(addr) ==
    /\ pc = "returned"
    /\ last' = <<[addr |-> addr, verdict |-> Blacklist_contains(result, addr)]>>
    /\ UNCHANGED <<blacklist, result, warnings, pc>>

Next ==
    \/ \E addr \in Patterns : from_iter_next(addr)
    \/ from_iter_return
    \/ \E addr \in SocketAddrs : contains(addr)

Spec == Init /\ [][Next]_vars

(***************************************************************************)
(* The same program given the written pattern texts: from_iter on a list   *)
(* of at most MaxTexts of them, then queries on the addresses they name.   *)
(***************************************************************************)
\* the longest list of pattern texts from_iter is given
MaxTexts == 1

TextSocketAddrs ==
    {SocketAddrV4(a, p) : a \in TextIpv4Addrs, p \in TextPorts}
    \cup {SocketAddrV6(a, p, 0, NoScope) :
            a \in {to_ipv6_mapped(b) : b \in TextIpv4Addrs} \cup {lo6}, p \in TextPorts}

\* one iteration of the loop of from_iter on a pattern text
from_iter_text(addr) ==
    /\ Len(blacklist) < MaxTexts
    /\ from_iter_next(addr)

TextNext ==
    \/ \E addr \in Texts : from_iter_text(addr)
    \/ from_iter_return
    \/ \E addr \in TextSocketAddrs : contains(addr)

TextSpec == Init /\ [][TextNext]_vars

(***************************************************************************)
(* from_iter as a function of the whole list, and notions the properties   *)
(* are stated with                                                         *)
(***************************************************************************)
RECURSIVE from_iter_loop(_, _)
from_iter_loop(map, list) ==
    IF list = <<>> THEN map
    ELSE from_iter_loop(add(map, Head(list)).map, Tail(list))

\* Blacklist::from_iter on a list of patterns
from_iter(list) == from_iter_loop(Blacklist_default, list)

\* The address a pattern names, as written (in its own family), when the
\* pattern is an IP or an IP with a port
WrittenAddrOf ==
    [s \in Patterns |->
        IF parse_IpAddr(s).ok THEN parse_IpAddr(s).val
        ELSE IF parse_SocketAddr(s).ok
        THEN [family |-> parse_SocketAddr(s).val.family, ip |-> parse_SocketAddr(s).val.ip]
        ELSE [family |-> "none", ip |-> <<>>]]

WrittenAddr(s) == WrittenAddrOf[s]

\* The port an IP:PORT pattern names
WrittenPortOf ==
    [s \in Patterns |-> IF parse_SocketAddr(s).ok THEN parse_SocketAddr(s).val.port ELSE -1]

\* Whether a pattern is a bare IP, and whether it is an IP with a port
BareIpOf == [s \in Patterns |-> parse_IpAddr(s).ok]

IpPortOf == [s \in Patterns |-> ~parse_IpAddr(s).ok /\ parse_SocketAddr(s).ok]

IsBareIp(s) == BareIpOf[s]

IsIpPort(s) == IpPortOf[s]

IsValid(s) == IsBareIp(s) \/ IsIpPort(s)

Denied(map) == {e \in SocketAddrs : Blacklist_contains(map, e)}

MappedSocketAddr(a, p) == SocketAddrV6(to_ipv6_mapped(a), p, 0, NoScope)

\* list without its k-th entry
RemoveAt(list, k) ==
    [i \in 1..(Len(list) - 1) |-> IF i < k THEN list[i] ELSE list[i + 1]]

\* every reordering of list
Reorderings(list) ==
    {[i \in 1..Len(list) |-> list[f[i]]] : f \in Permutations(1..Len(list))}

\* the patterns processed so far that parsed
ValidEntries == {k \in 1..Len(blacklist) : IsValid(blacklist[k])}


(***************************************************************************)
(* Properties                                                              *)
(***************************************************************************)

\* C1: in every blacklist from_iter can build, an IPv4 endpoint (a, p) and
\* its IPv4-mapped IPv6 presentation (::ffff:a, p) get the same verdict from
\* contains.
C1_SameVerdictInBothFamilies ==
    \A a \in Ipv4Addrs, p \in Ports :
        Blacklist_contains(result, SocketAddrV4(a, p))
            = Blacklist_contains(result, MappedSocketAddr(a, p))

\* A blacklist built from rules in IPv4 form and in mapped form, where one
\* endpoint is denied in both presentations and another permitted in both.
C1_Witness ==
    /\ pc = "returned"
    /\ blacklist = <<P_lo4_42, P_mapped_lo4, P_ip_42>>
    /\ Blacklist_contains(result, SocketAddrV4(lo4, 8080))
    /\ Blacklist_contains(result, MappedSocketAddr(lo4, 8080))
    /\ ~Blacklist_contains(result, SocketAddrV4(ip4, 8080))
    /\ ~Blacklist_contains(result, MappedSocketAddr(ip4, 8080))

\* C2: the blacklist built from a single bare IPv4 pattern "ip" denies
\* (ip, p) and (::ffff:ip, p) for every port p.
C2_BareIpv4DeniesAllPorts ==
    \A s \in Patterns :
        (blacklist = <<s>> /\ IsBareIp(s) /\ WrittenAddr(s).family = "V4")
            => \A p \in Ports :
                   /\ Blacklist_contains(result, SocketAddrV4(WrittenAddr(s).ip, p))
                   /\ Blacklist_contains(result, MappedSocketAddr(WrittenAddr(s).ip, p))

C2_Witness ==
    /\ pc = "returned"
    /\ blacklist = <<P_ip>>
    /\ WrittenAddr(P_ip) = [family |-> "V4", ip |-> ip4]
    /\ Blacklist_contains(result, MappedSocketAddr(ip4, 8080))

\* C3: the blacklist built from a single pattern "ip:p" denies an endpoint
\* exactly when its address is ip (in either presentation) and its port is
\* p; in particular it permits (ip, q) for every q # p.  The port p may be 0.
C3_IpPortDeniesExactlyThatPort ==
    \A s \in Patterns :
        (blacklist = <<s>> /\ IsIpPort(s))
            => \A e \in SocketAddrs :
                   Blacklist_contains(result, e)
                       <=> /\ Canonical(e) = Canonical(WrittenAddr(s))
                           /\ e.port = WrittenPortOf[s]

C3_Witness ==
    /\ pc = "returned"
    /\ blacklist = <<P_lo4_0>>
    /\ Denied(result) = {SocketAddrV4(lo4, 0), MappedSocketAddr(lo4, 0)}

\* C4: once a bare-IP pattern for address a is among the processed patterns,
\* the entry of a is All and every port of a is denied, whatever IP:PORT
\* patterns for a come before or after it.
C4_WholeIpRuleTakesPrecedence ==
    \A k \in 1..Len(blacklist) :
        IsBareIp(blacklist[k])
            => /\ Canonical(WrittenAddr(blacklist[k])) \in DOMAIN result
               /\ result[Canonical(WrittenAddr(blacklist[k]))] = PortsSet_All
               /\ \A e \in SocketAddrs :
                      Canonical(e) = Canonical(WrittenAddr(blacklist[k]))
                          => Blacklist_contains(result, e)

C4_Witness ==
    /\ pc = "returned"
    /\ blacklist = <<P_lo4_42, P_lo4, P_lo4_0>>
    /\ result[to_ipv6_mapped(lo4)] = PortsSet_All

\* The step on an entry that fails to parse, and what holds of every invalid
\* entry processed so far
C5_InvalidEntryStep ==
    (blacklist' # blacklist /\ ~IsValid(blacklist'[Len(blacklist')]))
        => (result' = result /\ pc' = "iterating")

C5_InvalidEntryRemovable ==
    last = <<>>
        => \A k \in 1..Len(blacklist) :
               ~IsValid(blacklist[k])
                   => /\ from_iter(RemoveAt(blacklist, k)) = result
                      /\ Denied(from_iter(RemoveAt(blacklist, k))) = Denied(result)

\* C5: an entry that fails to parse leaves the map exactly as it was and
\* does not end the loop, and in every state of construction and at the
\* return the map equals the one from_iter builds from the processed list
\* with any one invalid entry removed (so both answer every query alike;
\* the queries that follow change neither the list nor the map).
C5_InvalidEntryIsIgnored ==
    [][C5_InvalidEntryStep]_vars /\ []C5_InvalidEntryRemovable

\* An invalid entry between two valid ones: both valid ones took effect.
C5_Witness ==
    /\ pc = "returned"
    /\ blacklist = <<P_lo4_42, P_bad_cidr, P_ip>>
    /\ DOMAIN result = {to_ipv6_mapped(lo4), to_ipv6_mapped(ip4)}

\* C6: from_iter builds the same map from every reordering of the list it
\* has processed, in every state of construction and at the return, so
\* every query is answered alike (the queries that follow change neither the
\* list nor the map).
C6_OrderIndependent ==
    last = <<>>
        => \A list \in Reorderings(blacklist) :
               /\ from_iter(list) = result
               /\ Denied(from_iter(list)) = Denied(result)

\* "ip:p" then "ip" then another port of ip: the reorderings put the bare
\* IP first, in the middle and last.
C6_Witness ==
    /\ pc = "returned"
    /\ blacklist = <<P_lo4_42, P_lo4, P_lo4_0>>
    /\ from_iter(<<P_lo4, P_lo4_0, P_lo4_42>>) = result

\* C7: in every state of construction and at the return, applying any
\* valid pattern twice gives what applying it once gives, applying again a
\* valid pattern that was already processed leaves the map unchanged, and
\* the list with a repeated valid pattern builds the same map as the list
\* without the repetition.
C7_Idempotent ==
    last = <<>>
        => /\ \A s \in Patterns :
                  IsValid(s)
                      => add(add(result, s).map, s) = [ok |-> TRUE, map |-> add(result, s).map]
           /\ \A k \in ValidEntries : add(result, blacklist[k]) = [ok |-> TRUE, map |-> result]
           /\ \A j, k \in ValidEntries :
                  (j < k /\ blacklist[j] = blacklist[k])
                      => from_iter(RemoveAt(blacklist, k)) = result

\* A port rule repeated after another port rule of the same address.
C7_Witness ==
    /\ pc = "returned"
    /\ blacklist = <<P_lo4_42, P_lo4_0, P_lo4_42>>
    /\ result[to_ipv6_mapped(lo4)] = PortsSet_Some({0, 42})

\* What a step keeps of the entries that are All, and add_all followed by
\* add_port on the entries of the map
C8_AllStaysAll ==
    \A a \in DOMAIN result :
        result[a] = PortsSet_All => (a \in DOMAIN result' /\ result'[a] = PortsSet_All)

C8_AddPortAfterAddAll ==
    \A a \in DOMAIN result, x \in Ports :
        /\ add_port(add_all(result[a]), x) = PortsSet_All
        /\ \A q \in Ports : PortsSet_contains(add_port(add_all(result[a]), x), q)
        /\ add_all(PortsSet_All) = PortsSet_All

\* C8: once the PortsSet of an IP is All it is All in every later state,
\* whatever patterns follow; add_all then add_port(x) gives All for every
\* x, and add_all on All gives All.
C8_AllIsAbsorbing == [][C8_AllStaysAll]_vars /\ []C8_AddPortAfterAddAll

\* Port rules processed after the bare IP of the same address.
C8_Witness ==
    /\ blacklist = <<P_lo4, P_lo4_42, P_mapped_lo4_42>>
    /\ result[to_ipv6_mapped(lo4)] = PortsSet_All

\* C9: in every state, during and after construction, every key of the map
\* is an IPv6 address (eight 16-bit segments, never the four octets of an
\* IPv4 address) and the keys are exactly the canonical addresses of the
\* valid patterns processed: rules for a and for ::ffff:a share one entry.
C9_KeysAreCanonical ==
    /\ \A a \in DOMAIN result : Len(a) = 8 /\ \A i \in 1..8 : a[i] \in 0..U16_MAX
    /\ DOMAIN result = {Canonical(WrittenAddr(blacklist[k])) : k \in ValidEntries}

\* Rules for 127.0.0.1 in IPv4 form and in mapped form: one entry.
C9_Witness ==
    /\ blacklist = <<P_lo4_42, P_mapped_lo4_42, P_mapped_lo4>>
    /\ DOMAIN result = {to_ipv6_mapped(lo4)}

\* C10: the verdict of contains is false when the canonical form of the
\* address is not a key of the map; when it is a key the verdict is true if
\* the stored PortsSet is All, and otherwise says whether the port is in the
\* explicit set.
C10_ContainsVerdict ==
    last # <<>>
        => last[1].verdict
             = IF Canonical(last[1].addr) \notin DOMAIN result THEN FALSE
               ELSE IF result[Canonical(last[1].addr)].kind = "All" THEN TRUE
               ELSE last[1].addr.port \in result[Canonical(last[1].addr)].ports

\* A query answered from an All entry, for a port no rule names.
C10_Witness ==
    /\ blacklist = <<P_lo4, P_ip_42>>
    /\ last = <<[addr |-> SocketAddrV4(lo4, 8080), verdict |-> TRUE]>>

\* What a call of contains leaves alone, and the verdict of a call set
\* against the same query on the blacklist as from_iter built it
C11_ContainsStep ==
    last' # last
        => /\ result' = result
           /\ blacklist' = blacklist
           /\ warnings' = warnings
           /\ pc' = pc

C11_SameAsAlone ==
    last # <<>>
        => /\ result = from_iter(blacklist)
           /\ last[1].verdict = Blacklist_contains(from_iter(blacklist), last[1].addr)

\* C11: a call of contains changes nothing of the blacklist, and after any
\* sequence of earlier calls (each call is one step, so the sequences are
\* the interleavings of the callers) the verdict of a call is the one the
\* same query gets on the blacklist as from_iter returned it.
C11_ContainsIsReadOnly == [][C11_ContainsStep]_vars /\ []C11_SameAsAlone

\* A permitted endpoint queried on a blacklist with entries of both kinds.
C11_Witness ==
    /\ blacklist = <<P_lo4, P_ip_42, P_lo6_42>>
    /\ last = <<[addr |-> SocketAddrV4(ip4, 8080), verdict |-> FALSE]>>
    /\ result = from_iter(blacklist)

\* C12: construction never fails: while from_iter iterates, the step on
\* every pattern, valid or not, can be taken and so can the return; every
\* entry taken was processed (the map is from_iter of the whole list, and
\* each entry was either applied or warned about); and when no entry of the
\* list is valid (the empty list included) the map is empty and contains
\* answers false for every endpoint.
C12_ConstructionIsTotal ==
    /\ pc \in {"iterating", "returned"}
    /\ pc = "iterating"
          => /\ ENABLED from_iter_return
             /\ Len(blacklist) < MaxLen
                   => \A s \in Patterns : ENABLED from_iter_next(s)
    /\ Len(warnings) + Cardinality(ValidEntries) = Len(blacklist)
    /\ last = <<>> => result = from_iter(blacklist)
    /\ ValidEntries = {}
          => /\ result = Blacklist_default
             /\ DOMAIN result = {}
             /\ \A e \in SocketAddrs : ~Blacklist_contains(result, e)
             /\ last # <<>> => ~last[1].verdict

\* A list of invalid entries only, each with a valid address as its prefix,
\* was processed to the end and the address is permitted.
C12_Witness ==
    /\ pc = "returned"
    /\ blacklist = <<P_bad_cidr, P_bad_port, P_bad_octets>>
    /\ result = Blacklist_default
    /\ last = <<[addr |-> SocketAddrV4(ip4, 42), verdict |-> FALSE]>>

\* The entries of list that fail to parse, in list order
RECURSIVE InvalidEntries(_)
InvalidEntries(list) ==
    IF list = <<>> THEN <<>>
    ELSE IF IsValid(Head(list)) THEN InvalidEntries(Tail(list))
    ELSE <<Head(list)>> \o InvalidEntries(Tail(list))

\* The step that emits a warning, and the step on an entry that parses
C13_WarningStep ==
    /\ warnings' # warnings
          => /\ blacklist' = Append(blacklist, warnings'[Len(warnings')])
             /\ ~IsValid(warnings'[Len(warnings')])
             /\ warnings' = Append(warnings, warnings'[Len(warnings')])
             /\ result' = result
    /\ (blacklist' # blacklist /\ IsValid(blacklist'[Len(blacklist')]))
          => warnings' = warnings

\* C13: the warnings emitted are the entries of the processed list that
\* fail to parse, each named once and in list order (so none for an entry
\* that parses); the step that emits a warning names the entry just taken
\* and leaves the map unchanged.
C13_WarningPerInvalidEntry ==
    [][C13_WarningStep]_vars /\ [](warnings = InvalidEntries(blacklist))

\* Two invalid entries, one of them twice, around a valid one.
C13_Witness ==
    /\ pc = "returned"
    /\ blacklist = <<P_bad_port, P_ip_42, P_bad_port>>
    /\ warnings = <<P_bad_port, P_bad_port>>
    /\ DOMAIN result = {to_ipv6_mapped(ip4)}

\* C14: for every IPv4 address a, the bare texts "a.b.c.d" and
\* "::ffff:a.b.c.d" parse to the same PatternAddr, Ip(::ffff:a), and for
\* every port p the texts "a.b.c.d:p" and "[::ffff:a.b.c.d]:p" parse to
\* IpPort values with the address ::ffff:a and the port p; a bare IP text
\* (IPv6 included) parses to Ip and a text with a port to IpPort.
C14_SameParseInBothForms ==
    \A k \in 1..Len(blacklist) :
        /\ \A a \in TextIpv4Addrs :
               /\ blacklist[k] \in {fmt_Ipv4Addr(a), fmt_mapped(a)}
                     => /\ parse_PatternAddr(fmt_Ipv4Addr(a)) = parse_PatternAddr(fmt_mapped(a))
                        /\ parse_PatternAddr(blacklist[k]) = Ok(Ip(to_ipv6_mapped(a)))
                        /\ result[to_ipv6_mapped(a)] = PortsSet_All
               /\ \A p \in TextPorts :
                      blacklist[k] \in {fmt_with_port(fmt_Ipv4Addr(a), p),
                                        fmt_with_port(fmt_bracketed(fmt_mapped(a)), p)}
                          => /\ parse_PatternAddr(fmt_with_port(fmt_Ipv4Addr(a), p)).val.addr.ip
                                  = parse_PatternAddr(fmt_with_port(fmt_bracketed(fmt_mapped(a)), p)).val.addr.ip
                             /\ parse_PatternAddr(fmt_with_port(fmt_Ipv4Addr(a), p)).val.addr.port
                                  = parse_PatternAddr(fmt_with_port(fmt_bracketed(fmt_mapped(a)), p)).val.addr.port
                             /\ parse_PatternAddr(blacklist[k]).ok
                             /\ parse_PatternAddr(blacklist[k]).val.variant = "IpPort"
                             /\ parse_PatternAddr(blacklist[k]).val.addr.ip = to_ipv6_mapped(a)
                             /\ parse_PatternAddr(blacklist[k]).val.addr.port = p
                             /\ to_ipv6_mapped(a) \in DOMAIN result
        /\ blacklist[k] \in BareTexts
              => /\ parse_PatternAddr(blacklist[k]).ok
                 /\ parse_PatternAddr(blacklist[k]).val.variant = "Ip"
        /\ blacklist[k] \in PortTexts
              => /\ parse_PatternAddr(blacklist[k]).ok
                 /\ parse_PatternAddr(blacklist[k]).val.variant = "IpPort"

\* "[::ffff:10.99.100.0]:65535" was processed and built the map that
\* "10.99.100.0:65535" builds.
C14_Witness ==
    /\ pc = "returned"
    /\ blacklist = <<fmt_with_port(fmt_bracketed(fmt_mapped(<<10, 99, 100, 0>>)), U16_MAX)>>
    /\ result = from_iter(<<fmt_with_port(fmt_Ipv4Addr(<<10, 99, 100, 0>>), U16_MAX)>>)
    /\ result[to_ipv6_mapped(<<10, 99, 100, 0>>)] = PortsSet_Some({U16_MAX})

\* the entries of list that are in the set texts, in list order
RECURSIVE EntriesIn(_, _)
EntriesIn(list, texts) ==
    IF list = <<>> THEN <<>>
    ELSE IF Head(list) \in texts THEN <<Head(list)>> \o EntriesIn(Tail(list), texts)
    ELSE EntriesIn(Tail(list), texts)

\* C15: every malformed text (a wildcard, a CIDR suffix, three or five
\* octets, a malformed octet, a port that is no u16, a valid text with
\* something before or after it, brackets misused) fails to parse, while
\* the complete IP and IP:PORT texts parse; a malformed entry is warned
\* about and has no effect at all: the map is the one the well-formed
\* entries alone build, so after only malformed entries it is empty and
\* the address a malformed text starts with is permitted on every port.
C15_MalformedTextIsRejected ==
    /\ \A k \in 1..Len(blacklist) :
           /\ blacklist[k] \in BadTexts => parse_PatternAddr(blacklist[k]) = Err
           /\ blacklist[k] \in ValidTexts => parse_PatternAddr(blacklist[k]).ok
    /\ warnings = EntriesIn(blacklist, BadTexts)
    /\ result = from_iter(EntriesIn(blacklist, ValidTexts))
    /\ EntriesIn(blacklist, ValidTexts) = <<>>
          => /\ result = Blacklist_default
             /\ \A e \in TextSocketAddrs : ~Blacklist_contains(result, e)
             /\ last # <<>> => ~last[1].verdict

\* "192.0.2.4:424242" was processed and 192.0.2.4 is permitted.
C15_Witness ==
    /\ pc = "returned"
    /\ blacklist = <<fmt_Ipv4Addr(<<192, 0, 2, 4>>) \o <<":","4","2","4","2","4","2">>>>
    /\ blacklist[1] \in BadPortTexts
    /\ warnings = blacklist
    /\ result = Blacklist_default
    /\ last = <<[addr |-> SocketAddrV4(<<192, 0, 2, 4>>, 42), verdict |-> FALSE]>>

\* the ports named by the IP:PORT patterns processed so far for address a,
\* and whether a bare-IP pattern for a was processed
PortsNamed(a) ==
    {WrittenPortOf[blacklist[k]] :
        k \in {j \in 1..Len(blacklist) :
                 IsIpPort(blacklist[j]) /\ Canonical(WrittenAddr(blacklist[j])) = a}}

HasBareIpRule(a) ==
    \E k \in 1..Len(blacklist) :
        IsBareIp(blacklist[k]) /\ Canonical(WrittenAddr(blacklist[k])) = a

\* the canonical addresses of the query endpoints
CanonicalAddrs == {Canonical(e) : e \in SocketAddrs}

\* The step on an IP:PORT pattern, and the entry of an address without a
\* bare-IP rule
C16_PortRuleStep ==
    (blacklist' # blacklist /\ IsIpPort(blacklist'[Len(blacklist')]))
        => LET a == Canonical(WrittenAddr(blacklist'[Len(blacklist')]))
               port == WrittenPortOf[blacklist'[Len(blacklist')]]
           IN  /\ a \in DOMAIN result'
               /\ result'[a] = IF a \notin DOMAIN result THEN PortsSet_Some({port})
                                ELSE IF result[a].kind = "Some"
                                THEN PortsSet_Some(result[a].ports \cup {port})
                                ELSE PortsSet_All
               /\ (a \in DOMAIN result /\ result[a].kind = "Some")
                     => result[a].ports \subseteq result'[a].ports

C16_PortsOfPortRules ==
    \A a \in CanonicalAddrs \cup DOMAIN result :
        ~HasBareIpRule(a)
            => /\ a \in DOMAIN result <=> PortsNamed(a) # {}
               /\ a \in DOMAIN result => result[a] = PortsSet_Some(PortsNamed(a))
               /\ \A p \in Ports :
                      Blacklist_contains(result, SocketAddrV6(a, p, 0, NoScope))
                          <=> p \in PortsNamed(a)

\* C16: the step on IpPort(addr, port) makes an absent entry of addr
\* Some({port}), makes Some(S) into Some(S \cup {port}) and leaves All as
\* All; and for an address without a bare-IP rule among the processed
\* patterns the entry is Some of exactly the ports its port rules name, and
\* exactly those ports of it are denied.
C16_PortRuleMerge == [][C16_PortRuleStep]_vars /\ []C16_PortsOfPortRules

\* Port rules for 127.0.0.1 in both forms and for two ports.
C16_Witness ==
    /\ pc = "returned"
    /\ blacklist = <<P_lo4_42, P_mapped_lo4_42, P_lo4_0>>
    /\ PortsNamed(to_ipv6_mapped(lo4)) = {0, 42}
    /\ result[to_ipv6_mapped(lo4)] = PortsSet_Some({0, 42})

\* whether a valid pattern processed so far covers the endpoint e: the bare
\* IP of its canonical address, or its canonical address with its port
Covered(e) ==
    \E k \in 1..Len(blacklist) :
        \/ /\ IsBareIp(blacklist[k])
           /\ Canonical(WrittenAddr(blacklist[k])) = Canonical(e)
        \/ /\ IsIpPort(blacklist[k])
           /\ Canonical(WrittenAddr(blacklist[k])) = Canonical(e)
           /\ WrittenPortOf[blacklist[k]] = e.port

\* C17: in every state, the blacklist denies an endpoint exactly when a
\* valid pattern processed so far is the bare IP of the endpoint's canonical
\* address or that address with the endpoint's port; and the verdict of a
\* call of contains is that.
C17_DeniedIffCovered ==
    /\ \A e \in SocketAddrs : Blacklist_contains(result, e) <=> Covered(e)
    /\ last # <<>> => (last[1].verdict <=> Covered(last[1].addr))

\* The list of test_blacklist: nine endpoints denied, six permitted.
C17_Witness ==
    /\ pc = "returned"
    /\ blacklist = <<P_lo4, P_ip_42, P_lo6_42>>
    /\ Denied(result) =
          {SocketAddrV4(lo4, p) : p \in Ports} \cup {MappedSocketAddr(lo4, p) : p \in Ports}
              \cup {SocketAddrV4(ip4, 42), MappedSocketAddr(ip4, 42),
                     SocketAddrV6(lo6, 42, 0, NoScope)}
    /\ last = <<[addr |-> MappedSocketAddr(ip4, 42), verdict |-> TRUE]>>

\* What a step keeps, and the denials of the prefixes of the processed list
C18_GrowthStep ==
    /\ result' # result
          => /\ DOMAIN result \subseteq DOMAIN result'
             /\ Denied(result) \subseteq Denied(result')
             /\ \A a \in DOMAIN result :
                    \/ result'[a] = PortsSet_All
                    \/ /\ result[a].kind = "Some"
                       /\ result'[a].kind = "Some"
                       /\ result[a].ports \subseteq result'[a].ports
    /\ blacklist' # blacklist
          => /\ \A b \in DOMAIN result' :
                    b # Canonical(WrittenAddr(blacklist'[Len(blacklist')]))
                        => (b \in DOMAIN result /\ result'[b] = result[b])
             /\ ~IsValid(blacklist'[Len(blacklist')]) => result' = result

C18_PrefixDenials ==
    last = <<>>
        => \A n \in 0..Len(blacklist) :
               /\ Denied(from_iter(SubSeq(blacklist, 1, n))) \subseteq Denied(result)
               /\ DOMAIN from_iter(SubSeq(blacklist, 1, n)) \subseteq DOMAIN result

\* C18: a step that changes the map never removes a key or a denial and
\* never shrinks an entry,
\* the step on a pattern for address a leaves the entry of every other
\* address as it was (a pattern that fails to parse leaves all of them), and
\* what the blacklist built from a prefix of the processed list denies is
\* denied by the blacklist built from the whole of it.
C18_MonotonicGrowth == [][C18_GrowthStep]_vars /\ []C18_PrefixDenials

\* A second address was added, after an invalid entry, to a blacklist that
\* denied one port of the first.
C18_Witness ==
    /\ pc = "iterating"
    /\ blacklist = <<P_lo4_42, P_bad_cidr, P_ip>>
    /\ Denied(from_iter(<<P_lo4_42>>)) = {SocketAddrV4(lo4, 42), MappedSocketAddr(lo4, 42)}
    /\ Denied(from_iter(<<P_lo4_42>>)) \subseteq Denied(result)
    /\ Denied(result) # Denied(from_iter(<<P_lo4_42>>))
    /\ result[to_ipv6_mapped(lo4)] = PortsSet_Some({42})

====
